---- MODULE Spec2Model ----
(***************************************************************************)
(* Model of the optimization execution engine                              *)
(* (src/src/services/execution_engine.py) and of the gateway it drives     *)
(* (src/src/services/cloud_providers.py).                                  *)
(*                                                                         *)
(* The engine runs on one asyncio event loop.  A task keeps the loop until *)
(* it awaits a gateway call or asyncio.sleep; `turn` names the execution   *)
(* task that currently holds the loop (0: the loop is free).  Code between *)
(* two suspension points is atomic with respect to other tasks, but its    *)
(* statements are still separate steps of the model, so that every status  *)
(* change of a step is a visible state.                                    *)
(***************************************************************************)
EXTENDS Integers, Sequences, FiniteSets, TLC

\* ---------------------------------------------------------------- bounds
MaxExecs == 2        \* execute_optimization calls
MaxCancels == 1      \* cancel_execution calls
MaxResources == 1    \* cloud resources
MaxFaults == 3       \* failed attempts of step actions the gateway may cause

ExecIds == 1..MaxExecs
CancelIds == 1..MaxCancels
ResourceIds == 1..MaxResources

\* ------------------------------------------------------- program constants
DefaultMaxRetries == 3
RollbackParams == 1
PipelineRollbackArgs == 2

OptimizationStatus ==
    {"discovered", "pending_approval", "approved", "executing", "completed",
     "failed", "cancelled", "expired"}

ExecutionStatus ==
    {"pending", "running", "completed", "failed", "rolled_back", "cancelled"}

ExecutionPhase ==
    {"preparation", "validation", "backup", "execution", "verification",
     "completion", "rollback"}

OptimizationType ==
    {"rightsizing", "scheduling", "reserved_instances", "spot_instances",
     "storage_optimization", "unused_resources"}

\* A resource configuration: the fields the engine reads or computes.
NullConfig ==
    [instance_type |-> "none", scheduling |-> "none", storage_class |-> "none",
     prerequisites |-> <<>>]
InitialConfigs ==
    {[instance_type |-> "t3.medium", scheduling |-> "none", storage_class |-> "none",
      prerequisites |-> <<>>]}

\* ------------------------------------------------------------ step model
ExecutionStep(name, phase, order, rollback_steps) ==
    [name |-> name, phase |-> phase, order |-> order,
     retry_count |-> 0, max_retries |-> DefaultMaxRetries,
     status |-> "pending", error_message |-> "none",
     rollback_steps |-> rollback_steps,
     attempts |-> 0, failures |-> 0]

BaseSteps_swapped ==
    << ExecutionStep("Preparation", "preparation", 1, <<>>),
       ExecutionStep("Validation", "validation", 2, <<>>),
       ExecutionStep("Backup", "backup", 5, <<>>),
       ExecutionStep("Execution", "execution", 4, <<>>),
       ExecutionStep("Verification", "verification", 3, <<>>),
       ExecutionStep("Completion", "completion", 6, <<>>) >>

BaseSteps ==
    << ExecutionStep("Preparation", "preparation", 1, <<>>),
       ExecutionStep("Validation", "validation", 2, <<>>),
       ExecutionStep("Backup", "backup", 3, <<>>),
       ExecutionStep("Execution", "execution", 4, <<>>),
       ExecutionStep("Verification", "verification", 5, <<>>),
       ExecutionStep("Completion", "completion", 6, <<>>) >>

execute_rightsizing ==
    << ExecutionStep("Instance Rightsizing", "execution", 4,
          <<"Stop instance", "Change instance type back to original", "Start instance">>) >>

execute_scheduling ==
    << ExecutionStep("Resource Scheduling", "execution", 4,
          <<"Remove scheduled actions", "Start resource manually">>) >>

execute_unused_resource_removal ==
    << ExecutionStep("Unused Resource Removal", "execution", 4,
          <<"Restore from backup", "Recreate resource configuration">>) >>

execute_storage_optimization ==
    << ExecutionStep("Storage Optimization", "execution", 4,
          <<"Migrate back to original storage class", "Remove lifecycle policies">>) >>

execute_reserved_instance_purchase ==
    << ExecutionStep("Reserved Instance Purchase", "execution", 4,
          <<"Cancel reserved instance purchase">>) >>

execute_spot_instance_migration ==
    << ExecutionStep("Spot Instance Migration", "execution", 4,
          <<"Stop spot instance", "Start on-demand instance",
            "Update load balancer configuration">>) >>

\* The handler table built by _register_execution_handlers.
RegisteredHandlers == OptimizationType

Handler_none(type) == <<>>

Handler(type) ==
    CASE type = "rightsizing" -> execute_rightsizing
      [] type = "scheduling" -> execute_scheduling
      [] type = "unused_resources" -> execute_unused_resource_removal
      [] type = "storage_optimization" -> execute_storage_optimization
      [] type = "reserved_instances" -> execute_reserved_instance_purchase
      [] type = "spot_instances" -> execute_spot_instance_migration

\* sorted(all_steps, key=lambda x: x.order): a stable sort.  The place of the
\* i-th element in the result: after the elements of smaller order and after the
\* elements of equal order that come before it.
SortedPosition_descending(seq, i) ==
    Cardinality({j \in 1..Len(seq) :
        \/ seq[j].order > seq[i].order
        \/ seq[j].order = seq[i].order /\ j <= i})

SortedPosition(seq, i) ==
    Cardinality({j \in 1..Len(seq) :
        \/ seq[j].order < seq[i].order
        \/ seq[j].order = seq[i].order /\ j <= i})

SortedByOrder(seq) ==
    [k \in 1..Len(seq) |-> seq[CHOOSE i \in 1..Len(seq) : SortedPosition(seq, i) = k]]

CreateExecutionSteps_unsorted(type) == BaseSteps \o Handler(type)

CreateExecutionSteps(type) == SortedByOrder(BaseSteps \o Handler(type))

\* _calculate_target_config
CalculateTargetConfig(type, current_config) ==
    CASE type = "rightsizing" -> [current_config EXCEPT !.instance_type = "t3.medium"]
      [] type = "scheduling" -> [current_config EXCEPT !.scheduling = "weekdays 8-18 UTC"]
      [] type = "storage_optimization" -> [current_config EXCEPT !.storage_class = "STANDARD_IA"]
      [] OTHER -> current_config

\* The engine's verification helpers: all of them answer True.
validate_prerequisite(prerequisite, ctx) == TRUE
validate_target_config(target_config, ctx) == TRUE
verify_optimization_result(target_config, current_config, ctx) == TRUE
verify_rollback_success(original_config, current_config) == TRUE

\* ------------------------------------------------------------------ state
VARIABLES
    execution_handlers,  \* ExecutionEngine.execution_handlers: the types with a handler
    active_executions,   \* ExecutionEngine.active_executions: ids registered, all "running"
    opportunity,         \* per execution: the opportunity submitted
    execution,           \* per execution: the OptimizationExecution record
    context,             \* per execution: the ExecutionContext
    steps,               \* per execution: the pipeline built for it
    cur,                 \* per execution: index of the step the pipeline loop is at
    pc,                  \* per execution: position of the execute_optimization task
    error,               \* per execution: the exception in flight / surfaced to the caller
    rollback_success,    \* per execution: value returned by the task's _rollback_execution
    rb_caller,           \* per execution: who called _rollback_execution
    resConfig,           \* gateway: configuration of each resource
    resTags,             \* gateway: resources tagged optimized=true
    restoreCalls,        \* gateway: restore_resource_from_backup calls issued per execution
    faults,              \* gateway: failures injected so far
    turn,                \* execution task holding the event loop, 0 if none
    cpc,                 \* per cancel call: position of the cancel_execution task
    ctarget,             \* per cancel call: the execution id passed
    cresult              \* per cancel call: value returned

vars == <<execution_handlers, active_executions, opportunity, execution, context,
          steps, cur, pc, error, rollback_success, rb_caller, resConfig, resTags,
          restoreCalls, faults, turn, cpc, ctarget, cresult>>

NoOpportunity == [resource_id |-> 0, optimization_type |-> "none"]

NoExecution ==
    [status |-> "none", error_message |-> "none", rollback_required |-> FALSE,
     rollback_completed |-> FALSE, execution_log |-> <<>>]

NoContext ==
    [resource_id |-> 0, optimization_type |-> "none", current_config |-> NullConfig,
     target_config |-> NullConfig, backup_data |-> {}, execution_log |-> <<>>]

Init ==
    /\ execution_handlers = {}
    /\ active_executions = {}
    /\ opportunity = [e \in ExecIds |-> NoOpportunity]
    /\ execution = [e \in ExecIds |-> NoExecution]
    /\ context = [e \in ExecIds |-> NoContext]
    /\ steps = [e \in ExecIds |-> <<>>]
    /\ cur = [e \in ExecIds |-> 0]
    /\ pc = [e \in ExecIds |-> "idle"]
    /\ error = [e \in ExecIds |-> "none"]
    /\ rollback_success = [e \in ExecIds |-> "none"]
    /\ rb_caller = [e \in ExecIds |-> "none"]
    /\ resConfig \in [ResourceIds -> InitialConfigs]
    /\ resTags = {}
    /\ restoreCalls = [e \in ExecIds |-> 0]
    /\ faults = 0
    /\ turn = 0
    /\ cpc = [c \in CancelIds |-> "idle"]
    /\ ctarget = [c \in CancelIds |-> 0]
    /\ cresult = [c \in CancelIds |-> "none"]

\* ---------------------------------------------------------------- gateway
GatewayMayFail == faults < MaxFaults

\* create_resource_backup: {"resource_id", "backup_timestamp", "configuration"}
CreateResourceBackup(r) == {<<"resource_id", r>>, <<"configuration", resConfig[r]>>}

\* restore_resource_from_backup: the resource gets the configuration the backup
\* holds; a backup that holds none leaves it as it is.
RestoredConfig_lost(config, backup_data) == NullConfig

RestoredConfig(config, backup_data) ==
    IF \E kv \in backup_data : kv[1] = "configuration"
    THEN (CHOOSE kv \in backup_data : kv[1] = "configuration")[2]
    ELSE config

\* `if context.backup_data:` a dict is true when it is not empty
BackupPresent_always(backup_data) == TRUE

BackupPresent(backup_data) == backup_data # {}

\* ------------------------------------------------------------ initialize
Initialize ==
    /\ turn = 0
    /\ execution_handlers = {}
    /\ execution_handlers' = RegisteredHandlers
    /\ UNCHANGED <<active_executions, opportunity, execution, context, steps, cur, pc,
                   error, rollback_success, rb_caller, resConfig, resTags, restoreCalls,
                   faults, turn, cpc, ctarget, cresult>>

\* ---------------------------------------------------- execute_optimization
\* Lines 113-129: the record is created, then _create_execution_context awaits
\* the gateway's get_resource_config.
Submit(e, r, t) ==
    /\ turn = 0
    /\ pc[e] = "idle"
    /\ IF e = 1 THEN TRUE ELSE pc[e - 1] # "idle"
    /\ opportunity' = [opportunity EXCEPT ![e] = [resource_id |-> r, optimization_type |-> t]]
    /\ execution' = [execution EXCEPT ![e] = [NoExecution EXCEPT !.status = "executing"]]
    /\ pc' = [pc EXCEPT ![e] = "await_context_config"]
    /\ UNCHANGED <<execution_handlers, active_executions, context, steps, cur, error,
                   rollback_success, rb_caller, resConfig, resTags, restoreCalls, faults,
                   turn, cpc, ctarget, cresult>>

\* Lines 173-189 and 132-136: the context is built and the execution registered.
ContextConfigReturn(e) ==
    /\ turn = 0
    /\ pc[e] = "await_context_config"
    /\ LET r == opportunity[e].resource_id
           t == opportunity[e].optimization_type
       IN  context' = [context EXCEPT ![e] =
                [resource_id |-> r, optimization_type |-> t,
                 current_config |-> resConfig[r],
                 target_config |-> CalculateTargetConfig(t, resConfig[r]),
                 backup_data |-> {}, execution_log |-> <<>>]]
    /\ active_executions' = active_executions \cup {e}
    /\ pc' = [pc EXCEPT ![e] = "build"]
    /\ turn' = e
    /\ UNCHANGED <<execution_handlers, opportunity, execution, steps, cur, error,
                   rollback_success, rb_caller, resConfig, resTags, restoreCalls, faults,
                   cpc, ctarget, cresult>>

\* get_resource_config raises inside _create_execution_context: lines 161-167.
ContextConfigRaise_handled(e) ==
    /\ turn = 0
    /\ pc[e] = "await_context_config"
    /\ faults' = faults
    /\ error' = [error EXCEPT ![e] = "GatewayError"]
    /\ active_executions' = active_executions \cup {e}
    /\ pc' = [pc EXCEPT ![e] = "handle_failure"]
    /\ turn' = e
    /\ UNCHANGED <<execution_handlers, opportunity, execution, context,
                   steps, cur, rollback_success, rb_caller, resConfig, resTags,
                   restoreCalls, cpc, ctarget, cresult>>

ContextConfigRaise(e) ==
    /\ turn = 0
    /\ pc[e] = "await_context_config"
    /\ faults' = faults
    /\ error' = [error EXCEPT ![e] = "GatewayError"]
    /\ pc' = [pc EXCEPT ![e] = "raised"]
    /\ UNCHANGED <<execution_handlers, active_executions, opportunity, execution, context,
                   steps, cur, rollback_success, rb_caller, resConfig, resTags,
                   restoreCalls, turn, cpc, ctarget, cresult>>

\* `handler = self.execution_handlers.get(type)` followed by `if handler:`.
HandlerRegistered_any(handlers, type) == TRUE

HandlerRegistered(handlers, type) == type \in handlers

\* _run_execution_pipeline line 219, _create_execution_steps, and
\* _get_optimization_specific_steps lines 311-315.
BuildPipeline(e) ==
    /\ turn = e
    /\ pc[e] = "build"
    /\ IF HandlerRegistered(execution_handlers, context[e].optimization_type)
       THEN /\ steps' = [steps EXCEPT ![e] = CreateExecutionSteps(context[e].optimization_type)]
            /\ cur' = [cur EXCEPT ![e] = 1]
            /\ pc' = [pc EXCEPT ![e] = "step_start"]
            /\ error' = error
       ELSE /\ error' = [error EXCEPT ![e] = "NoHandler"]
            /\ pc' = [pc EXCEPT ![e] = "handle_failure"]
            /\ UNCHANGED <<steps, cur>>
    /\ UNCHANGED <<execution_handlers, active_executions, opportunity, execution, context,
                   rollback_success, rb_caller, resConfig, resTags, restoreCalls, faults,
                   turn, cpc, ctarget, cresult>>

\* ----------------------------------------------------------- _execute_step
CurStep(e) == steps[e][cur[e]]

\* Lines 320-321.
OnAttemptStarted(s) == [s EXCEPT !.status = "running"]

\* Lines 337-338.
OnAttemptSucceeded_reset(s) == [s EXCEPT !.status = "completed", !.retry_count = 0]

OnAttemptSucceeded(s) == [s EXCEPT !.status = "completed"]

\* Lines 347-349.
OnAttemptFailed(s, err) ==
    [s EXCEPT !.status = "failed", !.error_message = err, !.retry_count = @ + 1]

\* Line 359.
ShouldRetry_inclusive(s) == s.retry_count <= s.max_retries

ShouldRetry_always(s) == TRUE

ShouldRetry(s) == s.retry_count < s.max_retries

\* Phases whose action awaits the gateway, and the call they start with.
FirstCall(phase) ==
    CASE phase = "preparation" -> "await_validate_connection"
      [] phase = "backup" -> "await_create_backup"
      [] phase = "verification" -> "await_verify_config"
      [] phase = "completion" -> "await_update_tags"
      [] OTHER -> "step_action"

\* Lines 320-335: the step becomes Running and its phase action is entered.
\* The step's `attempts` counts the times its action was entered and its
\* `failures` (in AttemptFailed) the times it raised.
StartStep(e) ==
    /\ turn = e
    /\ pc[e] = "step_start"
    /\ steps' = [steps EXCEPT ![e][cur[e]] =
                    [OnAttemptStarted(@) EXCEPT !.attempts = @ + 1]]
    /\ pc' = [pc EXCEPT ![e] = FirstCall(CurStep(e).phase)]
    /\ turn' = IF FirstCall(CurStep(e).phase) = "step_action" THEN e ELSE 0
    /\ UNCHANGED <<execution_handlers, active_executions, opportunity, execution, context,
                   cur, error, rollback_success, rb_caller, resConfig, resTags,
                   restoreCalls, faults, cpc, ctarget, cresult>>

\* The attempt in flight succeeded: lines 337-344, back in the pipeline loop.
AttemptSucceeded(e) ==
    /\ steps' = [steps EXCEPT ![e][cur[e]] = OnAttemptSucceeded(@)]
    /\ pc' = [pc EXCEPT ![e] = "log_append"]
    /\ turn' = e
    /\ error' = error

\* The attempt in flight raised err: lines 346-363.
AttemptFailed(e, err) ==
    LET failed == OnAttemptFailed(CurStep(e), err)
    IN  /\ steps' = [steps EXCEPT ![e][cur[e]] = [failed EXCEPT !.failures = @ + 1]]
        /\ IF ShouldRetry(failed)
           THEN /\ pc' = [pc EXCEPT ![e] = "backoff"]
                /\ turn' = 0
                /\ error' = error
           ELSE /\ pc' = [pc EXCEPT ![e] = "pipeline_except"]
                /\ turn' = e
                /\ error' = [error EXCEPT ![e] = err]

\* Validation (lines 380-392) and Execution (lines 405-411) await nothing that
\* suspends.  Validation passes unless a helper answers False; the Execution
\* action calls the type's handler, which only builds and returns a step list.
SyncActionPasses(e) ==
    CASE CurStep(e).phase = "validation" ->
            /\ \A k \in DOMAIN context[e].current_config.prerequisites :
                  validate_prerequisite(context[e].current_config.prerequisites[k],
                                        context[e])
            /\ validate_target_config(context[e].target_config, context[e])
      [] CurStep(e).phase = "execution" ->
            HandlerRegistered(execution_handlers, context[e].optimization_type)
      [] OTHER -> TRUE

SyncActionError(e) ==
    IF CurStep(e).phase = "validation" THEN "ValidationError" ELSE "NoHandler"

StepAction(e) ==
    /\ turn = e
    /\ pc[e] = "step_action"
    /\ IF SyncActionPasses(e) THEN AttemptSucceeded(e)
       ELSE AttemptFailed(e, SyncActionError(e))
    /\ UNCHANGED <<execution_handlers, active_executions, opportunity, execution, context,
                   cur, rollback_success, rb_caller, resConfig, resTags, restoreCalls,
                   faults, cpc, ctarget, cresult>>

\* asyncio.sleep(5) is over: line 361, the recursive call.
RetryAfterBackoff(e) ==
    /\ turn = 0
    /\ pc[e] = "backoff"
    /\ pc' = [pc EXCEPT ![e] = "step_start"]
    /\ turn' = e
    /\ UNCHANGED <<execution_handlers, active_executions, opportunity, execution, context,
                   steps, cur, error, rollback_success, rb_caller, resConfig, resTags,
                   restoreCalls, faults, cpc, ctarget, cresult>>

\* ---- Preparation: validate_connection, then resource_exists (lines 365-378)
ValidateConnectionReturn(e) ==
    /\ turn = 0
    /\ pc[e] = "await_validate_connection"
    /\ pc' = [pc EXCEPT ![e] = "await_resource_exists"]
    /\ UNCHANGED <<execution_handlers, active_executions, opportunity, execution, context,
                   steps, cur, error, rollback_success, rb_caller, resConfig, resTags,
                   restoreCalls, faults, turn, cpc, ctarget, cresult>>

ValidateConnectionRaise(e) ==
    /\ turn = 0
    /\ pc[e] = "await_validate_connection"
    /\ GatewayMayFail
    /\ faults' = faults + 1
    /\ AttemptFailed(e, "GatewayError")
    /\ UNCHANGED <<execution_handlers, active_executions, opportunity, execution, context,
                   cur, rollback_success, rb_caller, resConfig, resTags, restoreCalls,
                   cpc, ctarget, cresult>>

ResourceExistsReturn(e, exists) ==
    /\ turn = 0
    /\ pc[e] = "await_resource_exists"
    /\ IF exists
       THEN /\ AttemptSucceeded(e)
            /\ faults' = faults
       ELSE /\ GatewayMayFail
            /\ faults' = faults + 1
            /\ AttemptFailed(e, "ResourceNotFound")
    /\ UNCHANGED <<execution_handlers, active_executions, opportunity, execution, context,
                   cur, rollback_success, rb_caller, resConfig, resTags, restoreCalls,
                   cpc, ctarget, cresult>>

ResourceExistsRaise(e) ==
    /\ turn = 0
    /\ pc[e] = "await_resource_exists"
    /\ GatewayMayFail
    /\ faults' = faults + 1
    /\ AttemptFailed(e, "GatewayError")
    /\ UNCHANGED <<execution_handlers, active_executions, opportunity, execution, context,
                   cur, rollback_success, rb_caller, resConfig, resTags, restoreCalls,
                   cpc, ctarget, cresult>>

\* ---- Backup: create_resource_backup (lines 394-403)
CreateBackupReturn_shared(e) ==
    /\ turn = 0
    /\ pc[e] = "await_create_backup"
    /\ context' = [x \in ExecIds |->
                      [context[x] EXCEPT !.backup_data =
                          CreateResourceBackup(context[e].resource_id)]]
    /\ AttemptSucceeded(e)
    /\ UNCHANGED <<execution_handlers, active_executions, opportunity, execution, cur,
                   rollback_success, rb_caller, resConfig, resTags, restoreCalls, faults,
                   cpc, ctarget, cresult>>

CreateBackupReturn(e) ==
    /\ turn = 0
    /\ pc[e] = "await_create_backup"
    /\ context' = [context EXCEPT ![e].backup_data =
                      CreateResourceBackup(context[e].resource_id)]
    /\ AttemptSucceeded(e)
    /\ UNCHANGED <<execution_handlers, active_executions, opportunity, execution, cur,
                   rollback_success, rb_caller, resConfig, resTags, restoreCalls, faults,
                   cpc, ctarget, cresult>>

CreateBackupRaise(e) ==
    /\ turn = 0
    /\ pc[e] = "await_create_backup"
    /\ GatewayMayFail
    /\ faults' = faults + 1
    /\ AttemptFailed(e, "GatewayError")
    /\ UNCHANGED <<execution_handlers, active_executions, opportunity, execution, context,
                   cur, rollback_success, rb_caller, resConfig, resTags, restoreCalls,
                   cpc, ctarget, cresult>>

\* ---- Verification: get_resource_config, then the comparison (lines 413-428)
VerifyConfigReturn(e) ==
    /\ turn = 0
    /\ pc[e] = "await_verify_config"
    /\ IF verify_optimization_result(context[e].target_config,
                                     resConfig[context[e].resource_id], context[e])
       THEN AttemptSucceeded(e)
       ELSE AttemptFailed(e, "VerificationFailed")
    /\ UNCHANGED <<execution_handlers, active_executions, opportunity, execution, context,
                   cur, rollback_success, rb_caller, resConfig, resTags, restoreCalls,
                   faults, cpc, ctarget, cresult>>

VerifyConfigRaise(e) ==
    /\ turn = 0
    /\ pc[e] = "await_verify_config"
    /\ GatewayMayFail
    /\ faults' = faults + 1
    /\ AttemptFailed(e, "GatewayError")
    /\ UNCHANGED <<execution_handlers, active_executions, opportunity, execution, context,
                   cur, rollback_success, rb_caller, resConfig, resTags, restoreCalls,
                   cpc, ctarget, cresult>>

\* ---- Completion: update_resource_tags (lines 430-442)
\* The resources that carry the tag optimized=true after the call.
TagOptimized_dropped(tags, r) == tags

TagOptimized(tags, r) == tags \cup {r}

UpdateTagsReturn(e) ==
    /\ turn = 0
    /\ pc[e] = "await_update_tags"
    /\ resTags' = TagOptimized(resTags, context[e].resource_id)
    /\ AttemptSucceeded(e)
    /\ UNCHANGED <<execution_handlers, active_executions, opportunity, execution, context,
                   cur, rollback_success, rb_caller, resConfig, restoreCalls, faults,
                   cpc, ctarget, cresult>>

UpdateTagsRaise(e) ==
    /\ turn = 0
    /\ pc[e] = "await_update_tags"
    /\ GatewayMayFail
    /\ faults' = faults + 1
    /\ AttemptFailed(e, "GatewayError")
    /\ UNCHANGED <<execution_handlers, active_executions, opportunity, execution, context,
                   cur, rollback_success, rb_caller, resConfig, resTags, restoreCalls,
                   cpc, ctarget, cresult>>

\* ------------------------------------------------- _run_execution_pipeline
LogRecord(s) == [step_name |-> s.name, status |-> s.status]

\* Line 224: context.execution_log.append(record).
LogAppend_front(log, record) == <<record>> \o log

LogAppend_twice(log, record) == Append(Append(log, record), record)

LogAppend(log, record) == Append(log, record)

\* Line 234: the abort test made after _execute_step has returned.
AbortAfterStep(s) == s.status = "failed" /\ s.retry_count >= s.max_retries

\* Lines 224-235, then the next iteration of the loop or its end.
AppendLog(e) ==
    /\ turn = e
    /\ pc[e] = "log_append"
    /\ context' = [context EXCEPT ![e].execution_log = LogAppend(@, LogRecord(CurStep(e)))]
    /\ IF AbortAfterStep(CurStep(e))
       THEN /\ pc' = [pc EXCEPT ![e] = "pipeline_except"]
            /\ error' = [error EXCEPT ![e] = "StepFailedAfterRetries"]
            /\ cur' = cur
       ELSE /\ error' = error
            /\ IF cur[e] < Len(steps[e])
               THEN /\ cur' = [cur EXCEPT ![e] = @ + 1]
                    /\ pc' = [pc EXCEPT ![e] = "step_start"]
               ELSE /\ cur' = cur
                    /\ pc' = [pc EXCEPT ![e] = "pipeline_done"]
    /\ UNCHANGED <<execution_handlers, active_executions, opportunity, execution, steps,
                   rollback_success, rb_caller, resConfig, resTags, restoreCalls, faults,
                   turn, cpc, ctarget, cresult>>

\* Lines 154-157: the finally clause of execute_optimization.
Unregister_keep(registry, e) == registry

Unregister(registry, e) == registry \ {e}

\* Line 141.
MarkCompleted_unmarked(record) == record

MarkCompleted(record) == [record EXCEPT !.status = "completed"]

\* Lines 141-147 and 154-159: the pipeline returned.
PipelineDone(e) ==
    /\ turn = e
    /\ pc[e] = "pipeline_done"
    /\ execution' = [execution EXCEPT ![e] = MarkCompleted(@)]
    /\ active_executions' = Unregister(active_executions, e)
    /\ pc' = [pc EXCEPT ![e] = "returned"]
    /\ turn' = 0
    /\ UNCHANGED <<execution_handlers, opportunity, context, steps, cur, error,
                   rollback_success, rb_caller, resConfig, resTags, restoreCalls, faults,
                   cpc, ctarget, cresult>>

\* ----------------------------------------------------- _rollback_execution
\* A call binds when it passes as many arguments as the function has parameters
\* (besides self); otherwise Python raises TypeError before the body runs.
CallBinds(args, params) == args = params

\* Lines 584-598: restore when there is a backup, then re-read the configuration.
\* The body up to its first gateway call, run by an execute_optimization task.
EnterRollback_skipped(e, caller) ==
    /\ rb_caller' = [rb_caller EXCEPT ![e] = caller]
    /\ turn' = e
    /\ restoreCalls' = restoreCalls
    /\ pc' = [pc EXCEPT ![e] = "rollback_returned"]

EnterRollback(e, caller) ==
    /\ rb_caller' = [rb_caller EXCEPT ![e] = caller]
    /\ turn' = 0
    /\ IF BackupPresent(context[e].backup_data)
       THEN /\ restoreCalls' = [restoreCalls EXCEPT ![e] = @ + 1]
            /\ pc' = [pc EXCEPT ![e] = "await_restore"]
       ELSE /\ restoreCalls' = restoreCalls
            /\ pc' = [pc EXCEPT ![e] = "await_rollback_config"]

\* Lines 237-246: the except clause of the loop.  It calls
\* _rollback_execution(context, step); the function is declared at line 581
\* with the single parameter context.
PipelineExcept(e) ==
    /\ turn = e
    /\ pc[e] = "pipeline_except"
    /\ IF CallBinds(PipelineRollbackArgs, RollbackParams)
       THEN /\ EnterRollback(e, "pipeline")
            /\ error' = error
       ELSE /\ error' = [error EXCEPT ![e] = "TypeError"]
            /\ pc' = [pc EXCEPT ![e] = "handle_failure"]
            /\ UNCHANGED <<rb_caller, restoreCalls, turn>>
    /\ UNCHANGED <<execution_handlers, active_executions, opportunity, execution, context,
                   steps, cur, rollback_success, resConfig, resTags, faults,
                   cpc, ctarget, cresult>>

\* Lines 558-559: the record is marked failed with the error it is handed.
MarkFailed_silent(record, error_message) ==
    [record EXCEPT !.error_message = error_message]

MarkFailed(record, error_message) ==
    [record EXCEPT !.status = "failed", !.error_message = error_message]

\* Lines 149-151 and 558-563: the record is marked failed and rollback is called.
HandleExecutionFailure(e) ==
    /\ turn = e
    /\ pc[e] = "handle_failure"
    /\ execution' = [execution EXCEPT ![e] = MarkFailed(@, error[e])]
    /\ EnterRollback(e, "handler")
    /\ UNCHANGED <<execution_handlers, active_executions, opportunity, context, steps,
                   cur, error, rollback_success, resConfig, resTags, faults,
                   cpc, ctarget, cresult>>

\* restore_resource_from_backup returned: lines 591-598.
RestoreReturn_consumed(e) ==
    /\ turn = 0
    /\ pc[e] = "await_restore"
    /\ resConfig' = [resConfig EXCEPT ![context[e].resource_id] =
                        RestoredConfig(@, context[e].backup_data)]
    /\ context' = [context EXCEPT ![e].backup_data = {}]
    /\ pc' = [pc EXCEPT ![e] = "await_rollback_config"]
    /\ UNCHANGED <<execution_handlers, active_executions, opportunity, execution,
                   steps, cur, error, rollback_success, rb_caller, resTags, restoreCalls,
                   faults, turn, cpc, ctarget, cresult>>

RestoreReturn(e) ==
    /\ turn = 0
    /\ pc[e] = "await_restore"
    /\ resConfig' = [resConfig EXCEPT ![context[e].resource_id] =
                        RestoredConfig(@, context[e].backup_data)]
    /\ pc' = [pc EXCEPT ![e] = "await_rollback_config"]
    /\ UNCHANGED <<execution_handlers, active_executions, opportunity, execution, context,
                   steps, cur, error, rollback_success, rb_caller, resTags, restoreCalls,
                   faults, turn, cpc, ctarget, cresult>>

\* restore_resource_from_backup raised: lines 615-620.
RestoreRaise(e) ==
    /\ turn = 0
    /\ pc[e] = "await_restore"
    /\ faults' = faults
    /\ rollback_success' = [rollback_success EXCEPT ![e] = "false"]
    /\ pc' = [pc EXCEPT ![e] = "rollback_returned"]
    /\ turn' = e
    /\ UNCHANGED <<execution_handlers, active_executions, opportunity, execution, context,
                   steps, cur, error, rb_caller, resConfig, resTags, restoreCalls,
                   cpc, ctarget, cresult>>

\* get_resource_config returned during rollback: lines 600-613.
RollbackConfigReturn(e) ==
    /\ turn = 0
    /\ pc[e] = "await_rollback_config"
    /\ rollback_success' = [rollback_success EXCEPT ![e] =
           IF verify_rollback_success(context[e].current_config,
                                      resConfig[context[e].resource_id])
           THEN "true" ELSE "false"]
    /\ pc' = [pc EXCEPT ![e] = "rollback_returned"]
    /\ turn' = e
    /\ UNCHANGED <<execution_handlers, active_executions, opportunity, execution, context,
                   steps, cur, error, rb_caller, resConfig, resTags, restoreCalls, faults,
                   cpc, ctarget, cresult>>

RollbackConfigRaise(e) ==
    /\ turn = 0
    /\ pc[e] = "await_rollback_config"
    /\ faults' = faults
    /\ rollback_success' = [rollback_success EXCEPT ![e] = "false"]
    /\ pc' = [pc EXCEPT ![e] = "rollback_returned"]
    /\ turn' = e
    /\ UNCHANGED <<execution_handlers, active_executions, opportunity, execution, context,
                   steps, cur, error, rb_caller, resConfig, resTags, restoreCalls,
                   cpc, ctarget, cresult>>

\* Line 566: `OptimizationStatus.ROLLED_BACK`.  Reading a name the enum does not
\* define raises AttributeError, which the except clause at line 575 swallows,
\* so the assignment does not happen.
StatusAfterRollback(status, success) ==
    IF success = "true" /\ "rolled_back" \in OptimizationStatus
    THEN "rolled_back" ELSE status

\* _rollback_execution returned to its caller.  In _handle_execution_failure:
\* lines 565-579, then lines 152-167 (re-raise, the finally clause).  In the
\* pipeline's except clause: line 246.
RollbackReturned(e) ==
    /\ turn = e
    /\ pc[e] = "rollback_returned"
    /\ IF rb_caller[e] = "handler"
       THEN /\ execution' = [execution EXCEPT ![e].status =
                                StatusAfterRollback(@, rollback_success[e])]
            /\ active_executions' = Unregister(active_executions, e)
            /\ pc' = [pc EXCEPT ![e] = "raised"]
            /\ turn' = 0
       ELSE /\ pc' = [pc EXCEPT ![e] = "handle_failure"]
            /\ UNCHANGED <<execution, active_executions, turn>>
    /\ UNCHANGED <<execution_handlers, opportunity, context, steps, cur, error,
                   rollback_success, rb_caller, resConfig, resTags, restoreCalls, faults,
                   cpc, ctarget, cresult>>

\* --------------------------------------------------------- cancel_execution
\* Lines 686-697, reached whatever _rollback_execution returned: the record is
\* marked cancelled, then `del` raises KeyError when the entry is gone and the
\* except clause at line 701 returns False.
CancelFinish(c) ==
    LET e == ctarget[c]
    IN  /\ execution' = [execution EXCEPT ![e].status = "cancelled",
                                          ![e].error_message = "Cancelled"]
        /\ active_executions' = active_executions \ {e}
        /\ cresult' = [cresult EXCEPT ![c] =
                          IF e \in active_executions THEN "true" ELSE "false"]
        /\ cpc' = [cpc EXCEPT ![c] = "done"]

\* Lines 678-683 and 584-598: the call, up to the first gateway call of rollback.
CancelCall_unrolled(c, e) ==
    /\ turn = 0
    /\ cpc[c] = "idle"
    /\ IF c = 1 THEN TRUE ELSE cpc[c - 1] # "idle"
    /\ ctarget' = [ctarget EXCEPT ![c] = e]
    /\ IF e \in active_executions
       THEN /\ execution' = [execution EXCEPT ![e].status = "cancelled",
                                              ![e].error_message = "Cancelled"]
            /\ active_executions' = active_executions \ {e}
            /\ cresult' = [cresult EXCEPT ![c] = "true"]
       ELSE /\ cresult' = [cresult EXCEPT ![c] = "false"]
            /\ UNCHANGED <<execution, active_executions>>
    /\ cpc' = [cpc EXCEPT ![c] = "done"]
    /\ UNCHANGED <<execution_handlers, opportunity, context, steps, cur, pc, error,
                   rollback_success, rb_caller, resConfig, resTags, restoreCalls,
                   faults, turn>>

CancelCall(c, e) ==
    /\ turn = 0
    /\ cpc[c] = "idle"
    /\ IF c = 1 THEN TRUE ELSE cpc[c - 1] # "idle"
    /\ ctarget' = [ctarget EXCEPT ![c] = e]
    /\ IF e \in active_executions
       THEN /\ cresult' = cresult
            /\ IF BackupPresent(context[e].backup_data)
               THEN /\ restoreCalls' = [restoreCalls EXCEPT ![e] = @ + 1]
                    /\ cpc' = [cpc EXCEPT ![c] = "await_restore"]
               ELSE /\ restoreCalls' = restoreCalls
                    /\ cpc' = [cpc EXCEPT ![c] = "await_rollback_config"]
       ELSE /\ cresult' = [cresult EXCEPT ![c] = "false"]
            /\ cpc' = [cpc EXCEPT ![c] = "done"]
            /\ restoreCalls' = restoreCalls
    /\ UNCHANGED <<execution_handlers, active_executions, opportunity, execution, context,
                   steps, cur, pc, error, rollback_success, rb_caller, resConfig, resTags,
                   faults, turn>>

CancelRestoreReturn(c) ==
    /\ turn = 0
    /\ cpc[c] = "await_restore"
    /\ resConfig' = [resConfig EXCEPT ![context[ctarget[c]].resource_id] =
                        RestoredConfig(@, context[ctarget[c]].backup_data)]
    /\ cpc' = [cpc EXCEPT ![c] = "await_rollback_config"]
    /\ UNCHANGED <<execution_handlers, active_executions, opportunity, execution, context,
                   steps, cur, pc, error, rollback_success, rb_caller, resTags,
                   restoreCalls, faults, turn, ctarget, cresult>>

CancelRestoreRaise(c) ==
    /\ turn = 0
    /\ cpc[c] = "await_restore"
    /\ faults' = faults
    /\ CancelFinish(c)
    /\ UNCHANGED <<execution_handlers, opportunity, context, steps, cur, pc, error,
                   rollback_success, rb_caller, resConfig, resTags, restoreCalls, turn,
                   ctarget>>

CancelConfigReturn(c) ==
    /\ turn = 0
    /\ cpc[c] = "await_rollback_config"
    /\ CancelFinish(c)
    /\ UNCHANGED <<execution_handlers, opportunity, context, steps, cur, pc, error,
                   rollback_success, rb_caller, resConfig, resTags, restoreCalls, faults,
                   turn, ctarget>>

CancelConfigRaise(c) ==
    /\ turn = 0
    /\ cpc[c] = "await_rollback_config"
    /\ faults' = faults
    /\ CancelFinish(c)
    /\ UNCHANGED <<execution_handlers, opportunity, context, steps, cur, pc, error,
                   rollback_success, rb_caller, resConfig, resTags, restoreCalls, turn,
                   ctarget>>

\* ------------------------------------------------------ get_execution_status
\* Lines 659-674: a read of the registry that awaits nothing.  The result is
\* the dictionary returned; `raised` is the exception raised instead of it.
get_execution_status_stale(execution_id) ==
    [raised |-> "none", execution_id |-> execution_id, status |-> "running",
     is_active |-> TRUE]

get_execution_status(execution_id) ==
    IF execution_id \in active_executions
    THEN [raised |-> "none", execution_id |-> execution_id, status |-> "running",
          is_active |-> TRUE]
    ELSE [raised |-> "none", execution_id |-> execution_id, status |-> "not_found",
          is_active |-> FALSE]

\* ------------------------------------------------------------ specification
\* The optimization types of the opportunities submitted.  The types differ in
\* the step their handler returns and in target_config only, so the
\* specification of concurrent tasks submits one of them and the specification
\* of a single task all six.
InputTypes == OptimizationType
ConcurrentInputTypes == {"rightsizing"}

Next ==
    \/ Initialize
    \/ \E e \in ExecIds, r \in ResourceIds, t \in ConcurrentInputTypes : Submit(e, r, t)
    \/ \E e \in ExecIds : ContextConfigReturn(e)
    \/ \E e \in ExecIds : ContextConfigRaise(e)
    \/ \E e \in ExecIds : BuildPipeline(e)
    \/ \E e \in ExecIds : StartStep(e)
    \/ \E e \in ExecIds : StepAction(e)
    \/ \E e \in ExecIds : RetryAfterBackoff(e)
    \/ \E e \in ExecIds : ValidateConnectionReturn(e)
    \/ \E e \in ExecIds : ValidateConnectionRaise(e)
    \/ \E e \in ExecIds, exists \in BOOLEAN : ResourceExistsReturn(e, exists)
    \/ \E e \in ExecIds : ResourceExistsRaise(e)
    \/ \E e \in ExecIds : CreateBackupReturn(e)
    \/ \E e \in ExecIds : CreateBackupRaise(e)
    \/ \E e \in ExecIds : VerifyConfigReturn(e)
    \/ \E e \in ExecIds : VerifyConfigRaise(e)
    \/ \E e \in ExecIds : UpdateTagsReturn(e)
    \/ \E e \in ExecIds : UpdateTagsRaise(e)
    \/ \E e \in ExecIds : AppendLog(e)
    \/ \E e \in ExecIds : PipelineDone(e)
    \/ \E e \in ExecIds : PipelineExcept(e)
    \/ \E e \in ExecIds : HandleExecutionFailure(e)
    \/ \E e \in ExecIds : RestoreReturn(e)
    \/ \E e \in ExecIds : RestoreRaise(e)
    \/ \E e \in ExecIds : RollbackConfigReturn(e)
    \/ \E e \in ExecIds : RollbackConfigRaise(e)
    \/ \E e \in ExecIds : RollbackReturned(e)
    \/ \E c \in CancelIds, e \in ExecIds : CancelCall(c, e)
    \/ \E c \in CancelIds : CancelRestoreReturn(c)
    \/ \E c \in CancelIds : CancelRestoreRaise(c)
    \/ \E c \in CancelIds : CancelConfigReturn(c)
    \/ \E c \in CancelIds : CancelConfigRaise(c)

Spec == Init /\ [][Next]_vars

\* The steps of one execute_optimization task.  Asyncio runs every task that is
\* ready, and a gateway call that returns or raises resumes its task: a task
\* that can move eventually does.
TaskStep(e) ==
    \/ ContextConfigReturn(e) \/ ContextConfigRaise(e) \/ BuildPipeline(e)
    \/ StartStep(e) \/ StepAction(e) \/ RetryAfterBackoff(e)
    \/ ValidateConnectionReturn(e) \/ ValidateConnectionRaise(e)
    \/ (\E exists \in BOOLEAN : ResourceExistsReturn(e, exists))
    \/ ResourceExistsRaise(e)
    \/ CreateBackupReturn(e) \/ CreateBackupRaise(e)
    \/ VerifyConfigReturn(e) \/ VerifyConfigRaise(e)
    \/ UpdateTagsReturn(e) \/ UpdateTagsRaise(e)
    \/ AppendLog(e) \/ PipelineDone(e) \/ PipelineExcept(e)
    \/ HandleExecutionFailure(e)
    \/ RestoreReturn(e) \/ RestoreRaise(e)
    \/ RollbackConfigReturn(e) \/ RollbackConfigRaise(e) \/ RollbackReturned(e)

\* One execute_optimization task on its own: the step runner and the pipeline
\* loop without other tasks on the event loop.
SoloNext ==
    \/ Initialize
    \/ \E r \in ResourceIds, t \in InputTypes : Submit(1, r, t)
    \/ TaskStep(1)

\* A gateway call that is pending can always return, so fairness of the return
\* says that the call does not stay pending for ever; it may still raise.
TaskFairness(e) ==
    /\ WF_vars(ContextConfigReturn(e))
    /\ WF_vars(BuildPipeline(e))
    /\ WF_vars(StartStep(e))
    /\ WF_vars(StepAction(e))
    /\ WF_vars(RetryAfterBackoff(e))
    /\ WF_vars(ValidateConnectionReturn(e))
    /\ WF_vars(ResourceExistsReturn(e, TRUE))
    /\ WF_vars(CreateBackupReturn(e))
    /\ WF_vars(VerifyConfigReturn(e))
    /\ WF_vars(UpdateTagsReturn(e))
    /\ WF_vars(AppendLog(e))
    /\ WF_vars(PipelineDone(e))
    /\ WF_vars(PipelineExcept(e))
    /\ WF_vars(HandleExecutionFailure(e))
    /\ WF_vars(RestoreReturn(e))
    /\ WF_vars(RollbackConfigReturn(e))
    /\ WF_vars(RollbackReturned(e))

SoloSpec == Init /\ [][SoloNext]_vars /\ TaskFairness(1)

\* The steps of a task that need no answer from the gateway: the event loop
\* runs them as soon as the task is ready, and the 5-second sleep ends.
LoopFairness(e) ==
    /\ WF_vars(BuildPipeline(e))
    /\ WF_vars(StartStep(e))
    /\ WF_vars(StepAction(e))
    /\ WF_vars(RetryAfterBackoff(e))
    /\ WF_vars(AppendLog(e))
    /\ WF_vars(PipelineDone(e))
    /\ WF_vars(PipelineExcept(e))
    /\ WF_vars(HandleExecutionFailure(e))
    /\ WF_vars(RollbackReturned(e))

\* One task with a gateway that need not answer: a pending call may return,
\* raise, or stay pending for ever.  _execute_step puts no deadline on the
\* action it awaits (lines 324-335), so no step of the task ends a pending call.
StalledGatewaySpec == Init /\ [][SoloNext]_vars /\ LoopFairness(1)

\* ------------------------------------------------------------------ claims
Started(s) == s.status # "pending"

BackupAbsent(e) == context[e].backup_data = {}

StepIds(e) == DOMAIN steps[e]

Registered(r) == {e \in active_executions : context[e].resource_id = r}

CancelReturnedTrue(e) ==
    \E c \in CancelIds : cpc[c] = "done" /\ ctarget[c] = e /\ cresult[c] = "true"

CancelInFlight(e) ==
    \E c \in CancelIds : cpc[c] \notin {"idle", "done"} /\ ctarget[c] = e

\* C1: for every resourceId at most one execution registered in the
\* active-execution table is Running, a submission for a resource that already
\* has one being rejected without registering anything.
C1_OneRunningPerResource ==
    \A r \in ResourceIds : Cardinality(Registered(r)) <= 1

\* C2: once execute_optimization has returned or raised for an execution, or
\* cancel_execution has returned True for it, the registry holds no entry for
\* it, and a submission of a fresh execution for any resource is admitted as
\* soon as the event loop is free.
C2_TerminalUnregistered ==
    \A e \in ExecIds :
        (pc[e] \in {"returned", "raised"} \/ CancelReturnedTrue(e)) =>
            /\ e \notin active_executions
            /\ \A e2 \in ExecIds, r \in ResourceIds :
                  (turn = 0 /\ pc[e2] = "idle" /\ e2 = e + 1) =>
                      ENABLED Submit(e2, r, "rightsizing")

C2_Witness ==
    \E e \in ExecIds, e2 \in ExecIds :
        /\ pc[e] \in {"returned", "raised"}
        /\ context[e].resource_id # 0
        /\ e2 > e
        /\ e2 \in active_executions
        /\ context[e2].resource_id = context[e].resource_id

\* C3 (as claimed): the steps of one execution are started in strictly
\* increasing value of their order field, each only after the steps started
\* before it have reached Completed or Failed.
C3_StrictlyIncreasingOrder ==
    \A e \in ExecIds : \A i \in StepIds(e), j \in StepIds(e) :
        (i < j /\ Started(steps[e][i]) /\ Started(steps[e][j])) =>
            /\ steps[e][i].order < steps[e][j].order
            /\ steps[e][i].status \in {"completed", "failed"}

\* C3 (amended): the steps of one execution are started in the order of the
\* sorted pipeline, so in non-decreasing value of order (the generic Execution
\* step and the type's own step both have order 4), and a step is started only
\* when every step before it is Completed.
C3_NonDecreasingSequential ==
    \A e \in ExecIds : \A i \in StepIds(e), j \in StepIds(e) :
        (i < j /\ Started(steps[e][j])) =>
            /\ steps[e][i].order <= steps[e][j].order
            /\ steps[e][i].status = "completed"

C3_Witness ==
    \E e \in ExecIds : \E j \in StepIds(e) :
        /\ j > 1
        /\ steps[e][j].status = "running"
        /\ steps[e][j].order = steps[e][j - 1].order

\* C4: no Execution-phase step is started before the Backup step is Completed
\* and backup_data recorded, and the Verification step is not started before
\* every Execution-phase step is Completed.
C4_BackupBeforeExecution ==
    \A e \in ExecIds : \A j \in StepIds(e) :
        /\ (steps[e][j].phase = "execution" /\ Started(steps[e][j])) =>
              /\ \E i \in StepIds(e) :
                    steps[e][i].phase = "backup" /\ steps[e][i].status = "completed"
              /\ ~BackupAbsent(e)
        /\ (steps[e][j].phase = "verification" /\ Started(steps[e][j])) =>
              \A i \in StepIds(e) :
                  steps[e][i].phase = "execution" => steps[e][i].status = "completed"

C4_Witness ==
    \E e \in ExecIds : \E j \in StepIds(e) :
        /\ steps[e][j].phase = "verification"
        /\ steps[e][j].status = "running"
        /\ Cardinality({i \in StepIds(e) : steps[e][i].phase = "execution"}) = 2

\* C5: a step whose action failed on its first k attempts, k < max_retries, and
\* succeeded on the next one is Completed with retry_count = k, and
\* _execute_step has returned normally to the pipeline loop.
C5_RetryThenSuccess ==
    \A e \in ExecIds : \A i \in StepIds(e) :
        steps[e][i].status = "completed" =>
            /\ steps[e][i].retry_count = steps[e][i].failures
            /\ steps[e][i].failures < steps[e][i].max_retries
            /\ steps[e][i].attempts = steps[e][i].failures + 1
            /\ i = cur[e] => pc[e] \in {"log_append", "pipeline_done", "returned"}

C5_Witness ==
    \E e \in ExecIds : \E i \in StepIds(e) :
        /\ steps[e][i].status = "completed"
        /\ steps[e][i].failures = DefaultMaxRetries - 1
        /\ steps[e][i].retry_count = DefaultMaxRetries - 1

\* The step the loop is at is between a failed attempt and its retry.
AwaitingRetry(e, i) == i = cur[e] /\ pc[e] \in {"backoff", "step_start"}

InExecuteStep(e) ==
    pc[e] \in {"step_start", "step_action", "backoff", "await_validate_connection",
               "await_resource_exists", "await_create_backup", "await_verify_config",
               "await_update_tags"}

ExecuteStepEnded(e) ==
    \/ pc[e] = "log_append" /\ CurStep(e).status = "completed"
    \/ pc[e] = "pipeline_except" /\ CurStep(e).status = "failed"

\* C7: the action of a step is attempted at most max_retries times,
\* retry_count never exceeds max_retries, and when every gateway call returns
\* or raises _execute_step ends: it returns with the step Completed or raises
\* with the step Failed.
C7_BoundedRetriesTerminate ==
    /\ [](\A e \in ExecIds : \A i \in StepIds(e) :
             /\ steps[e][i].attempts <= steps[e][i].max_retries
             /\ steps[e][i].retry_count <= steps[e][i].max_retries)
    /\ \A e \in ExecIds : InExecuteStep(e) ~> ExecuteStepEnded(e)

C7_Witness ==
    \E e \in ExecIds :
        /\ pc[e] = "pipeline_except"
        /\ CurStep(e).status = "failed"
        /\ CurStep(e).attempts = DefaultMaxRetries
        /\ CurStep(e).retry_count = DefaultMaxRetries

\* C8: when a step ends Failed no later step of the pipeline is ever started,
\* and the task's rollback has been invoked and has returned before
\* execute_optimization raises to its caller.
C8_FailureStopsAndRollsBack ==
    \A e \in ExecIds :
        /\ \A i \in StepIds(e), j \in StepIds(e) :
              (i < j /\ steps[e][i].status = "failed") => steps[e][j].status = "pending"
        /\ (pc[e] = "raised" /\ \E i \in StepIds(e) : steps[e][i].status = "failed") =>
              rollback_success[e] # "none"

C8_Witness ==
    \E e \in ExecIds : \E i \in StepIds(e) :
        /\ pc[e] = "raised"
        /\ steps[e][i].status = "failed"
        /\ i < Len(steps[e])
        /\ rollback_success[e] = "true"

\* The execution is over: its task has raised and no cancel call for it is
\* still running.
FailedAndSettled(e) == pc[e] = "raised" /\ steps[e] # <<>> /\ ~CancelInFlight(e)

CancelTargeted(e) == \E c \in CancelIds : cpc[c] # "idle" /\ ctarget[c] = e

C10_RolledBackAfterRestore ==
    \A e \in ExecIds :
        (FailedAndSettled(e) /\ ~BackupAbsent(e)
            /\ rollback_success[e] = "true") =>
            /\ execution[e].status = "rolled_back"
            /\ execution[e].rollback_completed = TRUE

\* What the caller of execute_optimization can observe of a failed execution:
\* the exception raised to it and the fields of the execution record.
CallerOutcome(e) ==
    [raised |-> error[e], status |-> execution[e].status,
     error_message |-> execution[e].error_message,
     rollback_completed |-> execution[e].rollback_completed]

\* execute_optimization has raised after its rollback returned False / True,
\* and no cancel call for the execution is still running.
RollbackFailed(e) ==
    pc[e] = "raised" /\ ~CancelInFlight(e) /\ rollback_success[e] = "false"

RollbackSucceeded(e) ==
    pc[e] = "raised" /\ ~CancelInFlight(e) /\ rollback_success[e] = "true"

\* C11: when the restore call raises or the verification after it fails, the
\* execution record ends Failed with rollback_completed false and the rollback
\* failure is surfaced to the caller of execute_optimization: what the caller
\* observes differs from what it observes of a failed execution whose rollback
\* succeeded.  (Stated for executions no cancel_execution call was made for.)
C11_RollbackFailureSurfaced ==
    \A e \in ExecIds :
        (RollbackFailed(e) /\ ~CancelTargeted(e)) =>
            /\ execution[e].status = "failed"
            /\ execution[e].rollback_completed = FALSE
            /\ \A e2 \in ExecIds :
                  (RollbackSucceeded(e2) /\ ~CancelTargeted(e2)) =>
                      CallerOutcome(e) # CallerOutcome(e2)

\* The configuration held by the backup blob, when it holds one.
HasSnapshot(e) == \E kv \in context[e].backup_data : kv[1] = "configuration"

Snapshot(e) == (CHOOSE kv \in context[e].backup_data : kv[1] = "configuration")[2]

FailedAtOrAfterBackup(e) ==
    \E i \in StepIds(e) :
        /\ steps[e][i].status = "failed"
        /\ steps[e][i].phase \in {"backup", "execution", "verification", "completion"}

StepRunning(e) == \E i \in StepIds(e) : steps[e][i].status = "running"

\* C13: cancel_execution does not take effect while a step of the target
\* execution is Running: in no step taken from such a state is a restore call
\* issued for the execution or its status changed to Cancelled.
C13_CancelWaitsForStep ==
    [][\A e \in ExecIds :
          StepRunning(e) =>
              /\ restoreCalls'[e] = restoreCalls[e]
              /\ execution'[e].status = "cancelled" => execution[e].status = "cancelled"]_vars

\* C14: once cancel_execution has taken effect for an execution (it returned
\* True), no step of that execution that is still Pending becomes Running.
C14_NoStepStartsAfterCancel ==
    [][\A e \in ExecIds :
          CancelReturnedTrue(e) =>
              \A i \in StepIds(e) :
                  ~(steps[e][i].status = "pending" /\ steps'[e][i].status = "running")]_vars

\* C15: when cancel_execution has returned True for an execution and its
\* execute_optimization call has finished too, the status of the execution
\* record is Cancelled.
C15_CancelledIsFinal ==
    \A e \in ExecIds :
        (CancelReturnedTrue(e) /\ pc[e] \in {"returned", "raised"}) =>
            execution[e].status = "cancelled"

\* C16 (as claimed): get_execution_status called with an id that is not in the
\* registry fails with a NotFound error.
C16_UnknownIdRaisesNotFound ==
    \A id \in ExecIds :
        id \notin active_executions => get_execution_status(id).raised = "NotFound"

\* C16 (amended): get_execution_status called with an id that is not in the
\* registry raises nothing and returns a result with status "not_found" and
\* is_active False; for a registered id it returns "running" and is_active True.
C16_UnknownIdReturnsNotFound ==
    \A id \in ExecIds :
        /\ get_execution_status(id).raised = "none"
        /\ get_execution_status(id).execution_id = id
        /\ id \notin active_executions =>
              /\ get_execution_status(id).status = "not_found"
              /\ get_execution_status(id).is_active = FALSE
        /\ id \in active_executions =>
              /\ get_execution_status(id).status = "running"
              /\ get_execution_status(id).is_active = TRUE

C16_Witness ==
    \E id \in ExecIds, id2 \in ExecIds :
        /\ pc[id] \in {"returned", "raised"}
        /\ id \notin active_executions
        /\ get_execution_status(id).status = "not_found"
        /\ id2 \in active_executions
        /\ get_execution_status(id2).status = "running"

\* A gateway call or a step action of the execution has failed.
AnyFailure(e) ==
    \/ error[e] # "none"
    \/ \E i \in StepIds(e) : steps[e][i].failures > 0

\* C17: for every supported optimization type, when every gateway call and
\* every step action succeeds execute_optimization terminates, and when it has
\* returned the execution record is Completed, every step is Completed and the
\* resource has been tagged optimized=true.
C17_AllSucceedCompletes ==
    /\ [](\A e \in ExecIds :
             pc[e] = "returned" =>
                 /\ execution[e].status = "completed"
                 /\ context[e].resource_id \in resTags
                 /\ \A i \in StepIds(e) : steps[e][i].status = "completed")
    /\ \A e \in ExecIds :
          pc[e] = "await_context_config" ~> (pc[e] = "returned" \/ AnyFailure(e))

C17_Witness ==
    \E e \in ExecIds :
        /\ pc[e] = "returned"
        /\ ~AnyFailure(e)
        /\ context[e].optimization_type = "spot_instances"
        /\ Len(steps[e]) = Len(BaseSteps) + 1
        /\ execution[e].status = "completed"
        /\ context[e].resource_id \in resTags

\* C18: when a step has failed after exhausting its retries, the error raised
\* to the caller of execute_optimization and the error_message of the execution
\* record are the error message of that step.  (Stated for executions no
\* cancel_execution call was made for.)
C18_StepErrorSurfaced ==
    \A e \in ExecIds : \A i \in StepIds(e) :
        (pc[e] = "raised" /\ steps[e][i].status = "failed" /\ ~CancelTargeted(e)) =>
            /\ error[e] = steps[e][i].error_message
            /\ execution[e].error_message = steps[e][i].error_message

\* The context of the execution was created and its pipeline has been built,
\* or the construction of the pipeline has failed.
PastBuild(e) ==
    context[e] # NoContext /\ pc[e] \notin {"idle", "await_context_config", "build"}

InRollback(e) == pc[e] \in {"await_restore", "await_rollback_config", "rollback_returned"}

NoHandlerFor(e) == PastBuild(e) /\ context[e].optimization_type \notin execution_handlers

\* C19 (as claimed): when no handler is registered for the type, pipeline
\* construction fails before any step is Running, nothing is retried and no
\* rollback is performed: the rollback routine makes no gateway call for the
\* execution.
C19_NoHandlerNoRollback ==
    \A e \in ExecIds :
        NoHandlerFor(e) =>
            /\ steps[e] = <<>>
            /\ error[e] = "NoHandler"
            /\ restoreCalls[e] = 0
            /\ ~InRollback(e)
            /\ rollback_success[e] = "none"

\* C19 (amended): when no handler is registered for the type, pipeline
\* construction fails before any step exists, nothing is retried and no restore
\* call is issued; the rollback routine is still run once before
\* execute_optimization raises, and only re-reads the configuration.
C19_NoHandlerNoRestore ==
    \A e \in ExecIds :
        NoHandlerFor(e) =>
            /\ steps[e] = <<>>
            /\ error[e] = "NoHandler"
            /\ restoreCalls[e] = 0
            /\ pc[e] \in {"handle_failure", "await_rollback_config",
                          "rollback_returned", "raised"}
            /\ pc[e] = "raised" => rollback_success[e] # "none"

C19_Witness ==
    \E e \in ExecIds :
        /\ NoHandlerFor(e)
        /\ pc[e] = "raised"
        /\ steps[e] = <<>>
        /\ restoreCalls[e] = 0
        /\ rollback_success[e] = "true"
        /\ execution[e].error_message = "NoHandler"

\* The errors of a structural failure: the resource does not exist, a
\* prerequisite is not met.
StructuralErrors == {"ResourceNotFound", "ValidationError"}

\* C20: a step whose action found a structural failure is not retried: its
\* action is attempted exactly once and the failure goes straight to the
\* pipeline loop.
C20_StructuralFailureNotRetried ==
    \A e \in ExecIds : \A i \in StepIds(e) :
        steps[e][i].error_message \in StructuralErrors =>
            /\ steps[e][i].attempts = 1
            /\ steps[e][i].retry_count <= 1
            /\ ~AwaitingRetry(e, i)

\* The execution record holds a terminal status: Completed, RolledBack,
\* Cancelled, or Failed once failure handling is over.
TerminalStatus(e) ==
    \/ execution[e].status \in {"completed", "rolled_back", "cancelled"}
    \/ execution[e].status = "failed" /\ pc[e] = "raised"

\* C21: once the execution record holds a terminal status, no later step of
\* the engine (pipeline loop, failure handling, cancel_execution) changes it.
C21_TerminalStatusStable ==
    [][\A e \in ExecIds :
          TerminalStatus(e) => execution'[e].status = execution[e].status]_vars

\* The records of the log that were written for the i-th step.
LogRecordsOf(e, i) ==
    {k \in DOMAIN context[e].execution_log :
        context[e].execution_log[k].step_name = steps[e][i].name}

\* _execute_step is over for the i-th step and the pipeline loop has dealt with
\* its outcome: the step is Completed and the loop has moved past the append,
\* or the step is Failed and the loop's except clause has run.
StepSettled(e, i) ==
    \/ /\ steps[e][i].status = "completed"
       /\ ~(i = cur[e] /\ pc[e] = "log_append")
    \/ /\ steps[e][i].status = "failed"
       /\ ~AwaitingRetry(e, i)
       /\ pc[e] # "pipeline_except"

\* C22: every transition of a step to Completed or Failed appends exactly one
\* record for that step to the execution_log of the context; a step that ended
\* Failed has a record in the log.
C22_TerminalTransitionLogged ==
    \A e \in ExecIds : \A i \in StepIds(e) :
        StepSettled(e, i) => Cardinality(LogRecordsOf(e, i)) = 1

\* C23: a step whose gateway call never returns does not stay Running for
\* ever: the attempt ends, counted as a failed attempt, as if the call had
\* raised.
C23_StalledCallTimesOut ==
    \A e \in ExecIds : StepRunning(e) ~> ~StepRunning(e)

\* The six generic steps, by name and by phase, in the order of the claim.
GenericNames ==
    <<"Preparation", "Validation", "Backup", "Execution", "Verification", "Completion">>

GenericPhases ==
    <<"preparation", "validation", "backup", "execution", "verification", "completion">>

IsGeneric(s) == \E k \in DOMAIN GenericNames : s.name = GenericNames[k]

GenericInOrder(pipeline) ==
    LET generic == SelectSeq(pipeline, IsGeneric)
    IN  /\ Len(generic) = Len(GenericNames)
        /\ \A k \in DOMAIN GenericNames :
              /\ generic[k].name = GenericNames[k]
              /\ generic[k].phase = GenericPhases[k]
              /\ generic[k].order = k

\* C24: for every supported optimization type the pipeline returned by
\* _create_execution_steps, and so every pipeline an execution runs, contains
\* the generic steps Preparation, Validation, Backup, Execution, Verification,
\* Completion with order 1 to 6, in that relative order.
C24_GenericStepsInOrder ==
    /\ \A t \in OptimizationType : GenericInOrder(CreateExecutionSteps(t))
    /\ \A e \in ExecIds : steps[e] # <<>> => GenericInOrder(steps[e])

C24_Witness ==
    \E e \in ExecIds :
        /\ context[e].optimization_type = "storage_optimization"
        /\ Len(steps[e]) = Len(GenericNames) + 1
        /\ steps[e][4].name = "Execution"
        /\ steps[e][5].name = "Storage Optimization"
        /\ steps[e][6].name = "Verification"
        /\ steps[e][6].status = "running"

\* The positions of the pipeline that hold a step of the type's own: phase
\* Execution, order 4, rollback descriptors present, after the Backup step and
\* before the Verification step.
TypeSpecificAt(pipeline) ==
    {j \in DOMAIN pipeline :
        /\ ~IsGeneric(pipeline[j])
        /\ pipeline[j].phase = "execution"
        /\ pipeline[j].order = 4
        /\ pipeline[j].rollback_steps # <<>>
        /\ \E b \in DOMAIN pipeline : b < j /\ pipeline[b].phase = "backup"
        /\ \E v \in DOMAIN pipeline : v > j /\ pipeline[v].phase = "verification"}

\* C25: for each of the six optimization types the built pipeline holds at
\* least one step of the type's own, of phase Execution and order 4, with a
\* non-empty list of rollback descriptors, after Backup and before Verification.
C25_TypeSpecificStepPresent ==
    /\ \A t \in OptimizationType : TypeSpecificAt(CreateExecutionSteps(t)) # {}
    /\ \A e \in ExecIds : steps[e] # <<>> => TypeSpecificAt(steps[e]) # {}

C25_Witness ==
    \E e \in ExecIds :
        /\ context[e].optimization_type = "reserved_instances"
        /\ TypeSpecificAt(steps[e]) = {5}
        /\ steps[e][5].name = "Reserved Instance Purchase"
        /\ steps[e][5].rollback_steps = <<"Cancel reserved instance purchase">>
        /\ steps[e][5].status = "completed"

\* The compensating calls issued for the execution: the engine's only call
\* that writes to the resource during rollback is restore_resource_from_backup.
CompensationsIssued(e) == restoreCalls[e]

CompletedSteps(e) == {i \in StepIds(e) : steps[e][i].status = "completed"}

\* C26: when a step ended Failed, rollback has compensated every step of the
\* execution that had Completed, one compensation per step, in the reverse of
\* the order of completion.  (Stated for executions no cancel_execution call
\* was made for.)
C26_EachCompletedStepCompensated ==
    \A e \in ExecIds :
        (FailedAndSettled(e) /\ ~CancelTargeted(e)
            /\ \E i \in StepIds(e) : steps[e][i].status = "failed") =>
            CompensationsIssued(e) = Cardinality(CompletedSteps(e))

\* A cancel call for the execution is inside its _rollback_execution.
CancelRollingBack(c, e) ==
    ctarget[c] = e /\ cpc[c] \in {"await_restore", "await_rollback_config"}

\* C27: the status of an execution becomes Cancelled only in the step in which
\* the _rollback_execution that a cancel_execution call for it had invoked
\* returns: rollback was invoked after the cancel call and is over before the
\* status changes.
C27_RollbackBeforeCancelled ==
    [][\A e \in ExecIds :
          (execution'[e].status = "cancelled" /\ execution[e].status # "cancelled") =>
              \E c \in CancelIds : CancelRollingBack(c, e) /\ cpc'[c] = "done"]_vars

C27_Witness ==
    \E e \in ExecIds :
        /\ execution[e].status = "cancelled"
        /\ CancelReturnedTrue(e)
        /\ restoreCalls[e] > 0
        /\ resConfig[context[e].resource_id] = Snapshot(e)

IsPrefix(a, b) == Len(a) <= Len(b) /\ \A k \in DOMAIN a : a[k] = b[k]

\* C28: the execution_log of a context is append-only and ordered: every step
\* of the engine leaves the previous log as a prefix of the new one, and the
\* k-th record is the record of the k-th step executed.
C28_LogAppendOnlyOrdered ==
    /\ [][\A e \in ExecIds :
             IsPrefix(context[e].execution_log, context'[e].execution_log)]_vars
    /\ [](\A e \in ExecIds : \A k \in DOMAIN context[e].execution_log :
             /\ k \in StepIds(e)
             /\ context[e].execution_log[k].step_name = steps[e][k].name
             /\ context[e].execution_log[k].status = "completed")

C28_Witness ==
    \E e \in ExecIds :
        /\ Len(context[e].execution_log) = Len(steps[e])
        /\ Len(steps[e]) > 1
        /\ context[e].execution_log[1].step_name = "Preparation"
        /\ context[e].execution_log[Len(steps[e])].step_name = "Completion"

\* C29: when an execution has reached a terminal status, the execution_log
\* field of the execution record holds a copy of the context's execution_log.
C29_RecordHoldsLog ==
    \A e \in ExecIds :
        (pc[e] \in {"returned", "raised"} /\ context[e] # NoContext) =>
            execution[e].execution_log = context[e].execution_log

\* The step taken is a step of the execute_optimization task of e alone.
OwnStep(e) ==
    /\ pc'[e] # pc[e]
    /\ \A e1 \in ExecIds \ {e} : pc'[e1] = pc[e1]
    /\ cpc' = cpc

\* C30: the ExecutionContext of an execution, with its execution_log and
\* backup_data, and its steps are changed only by steps of its own task: no
\* step run, retry or rollback of another execution, and no cancel call,
\* changes them.
C30_ContextOwnedByExecution ==
    [][\A e \in ExecIds :
          (context'[e] # context[e] \/ steps'[e] # steps[e]) => OwnStep(e)]_vars

C30_Witness ==
    \E e1 \in ExecIds, e2 \in ExecIds :
        /\ e1 # e2
        /\ {e1, e2} \subseteq active_executions
        /\ context[e1].resource_id = context[e2].resource_id
        /\ ~BackupAbsent(e1)
        /\ BackupAbsent(e2)
        /\ Len(context[e1].execution_log) > Len(context[e2].execution_log)
        /\ Len(context[e2].execution_log) > 0

\* execute_optimization has returned or raised for the execution.
CallOver(e) == pc[e] \in {"returned", "raised"}

C32_RestoreAtMostOnce ==
    \A e \in ExecIds : restoreCalls[e] <= 1

\* C33: a cancel_execution call that returns False has had no effect: it
\* returns straight from its registry test, having issued no restore call, and
\* leaves the execution records and the registry as they were.
C33_FalseCancelHasNoEffect ==
    [][\A c \in CancelIds :
          (cpc[c] # "done" /\ cpc'[c] = "done" /\ cresult'[c] = "false") =>
              /\ cpc[c] = "idle"
              /\ execution' = execution
              /\ active_executions' = active_executions
              /\ restoreCalls' = restoreCalls]_vars

\* C34: execute_optimization returns normally only with the record Completed:
\* in the step in which it returns the status is Completed, and it has not
\* returned for an execution whose context creation, pipeline construction or
\* step failed.
C34_ReturnsOnlyCompleted ==
    /\ [][\A e \in ExecIds :
             (pc'[e] = "returned" /\ pc[e] # "returned") =>
                 execution'[e].status = "completed"]_vars
    /\ [](\A e \in ExecIds :
             (\/ error[e] # "none"
              \/ \E i \in StepIds(e) : steps[e][i].status = "failed") =>
                 pc[e] # "returned")

C34_Witness ==
    \E e1 \in ExecIds, e2 \in ExecIds :
        /\ pc[e1] = "returned"
        /\ execution[e1].status = "completed"
        /\ pc[e2] = "raised"
        /\ error[e2] = "TypeError"

\* C35: in the step in which the pipeline driver sets the record to Completed,
\* every step of the pipeline is Completed and the execution_log holds
\* exactly one record per step.
C35_CompletedMeansAllStepsLogged ==
    [][\A e \in ExecIds :
          (execution'[e].status = "completed" /\ execution[e].status # "completed") =>
              /\ steps[e] # <<>>
              /\ \A i \in StepIds(e) :
                    /\ steps[e][i].status = "completed"
                    /\ Cardinality(LogRecordsOf(e, i)) = 1
              /\ Len(context[e].execution_log) = Len(steps[e])]_vars

C35_Witness ==
    \E e \in ExecIds :
        /\ pc[e] = "returned"
        /\ execution[e].status = "completed"
        /\ Len(context[e].execution_log) = Len(BaseSteps) + 1
        /\ \E i \in StepIds(e) : steps[e][i].retry_count > 0

\* C36: when an execution has ended Completed the configuration of the
\* resource equals the target_config of its context.
C36_CompletedMeansTargetApplied ==
    \A e \in ExecIds :
        (pc[e] = "returned" /\ execution[e].status = "completed") =>
            resConfig[context[e].resource_id] = context[e].target_config

\* The execution failed while its context was being created.
ContextCreationFailed(e) == pc[e] = "raised" /\ context[e] = NoContext

\* C37: when reading the configuration during context creation fails,
\* execute_optimization raises with the registry unchanged, the execution was
\* never registered, no step was run and rollback was not invoked.
C37_ContextFailureLeavesNoTrace ==
    /\ [][\A e \in ExecIds :
             (pc[e] = "await_context_config" /\ pc'[e] = "raised") =>
                 active_executions' = active_executions]_vars
    /\ [](\A e \in ExecIds :
             ContextCreationFailed(e) =>
                 /\ e \notin active_executions
                 /\ steps[e] = <<>>
                 /\ rb_caller[e] = "none"
                 /\ rollback_success[e] = "none"
                 /\ restoreCalls[e] = 0
                 /\ execution[e].status = "executing")
    /\ [](\A e \in ExecIds :
             (pc[e] \notin {"idle", "await_context_config"} /\ context[e] = NoContext) =>
                 pc[e] = "raised")

C37_Witness ==
    \E e \in ExecIds, e2 \in ExecIds :
        /\ ContextCreationFailed(e)
        /\ error[e] = "GatewayError"
        /\ e2 # e
        /\ active_executions = {e2}

\* C38: the backup_data of an execution is written only by a Backup step that
\* succeeds: every other step, its retries, rollback and cancel_execution
\* leave it as it is.
C38_BackupWrittenOnlyByBackupStep ==
    [][\A e \in ExecIds :
          context'[e].backup_data # context[e].backup_data =>
              /\ pc[e] = "await_create_backup"
              /\ CurStep(e).phase = "backup"
              /\ steps'[e][cur[e]].status = "completed"
              /\ context[e].backup_data = {}]_vars

C38_Witness ==
    \E e \in ExecIds :
        /\ HasSnapshot(e)
        /\ restoreCalls[e] > 1
        /\ CancelTargeted(e)
        /\ pc[e] = "raised"

====
